---- MODULE Spec2Model ----
(***************************************************************************)
(* Model of devskale/pvapp.                                                *)
(*                                                                         *)
(*  - the solar sizing form (src/app.js with src/config.js, and its        *)
(*    earlier self-contained variant src/unnamed/part_000);                *)
(*  - the energy profile viewer (src/python/static/script.js): fetchData,  *)
(*    loadCategories and the chart fetchData builds, with its tooltip and  *)
(*    legend callbacks, and the two copy buttons.                          *)
(*                                                                         *)
(* Numbers: JavaScript numbers are modelled as exact rationals plus NaN.   *)
(* IEEE-754 rounding of a product or a quotient is not modelled.           *)
(* Strings the code parses (the kW field, the date field) are sequences of *)
(* one-character strings.                                                  *)
(***************************************************************************)
EXTENDS Integers, Sequences, FiniteSets, TLC

\* ------------------------------------------------------------------ bounds
\* longest text typed into the kW field of the sizing form
MaxInputLen == 3
\* most points in a series handed to the chart callbacks
MaxLen == 3
\* kwh values of those points are 0, 1/4, ..., MaxKwh/4
MaxKwh == 3
\* most fetch requests sent in one run of the viewer
MaxFetches == 2
\* most points in a series of a response in a run of the viewer
UiMaxLen == 1
\* most lines of text in the results area
MaxLines == 2
\* most pending timeouts of one copy button
MaxCopyTimers == 1
\* the longest text typed into the date field when the date sent is examined
MaxDateLen == 6

\* ------------------------------------------------------------- JS numbers
RECURSIVE GCD(_, _)
GCD(a, b) == IF b = 0 THEN a ELSE GCD(b, a % b)

Abs(n) == IF n < 0 THEN -n ELSE n

\* the JS value NaN
NaN == [nan |-> TRUE, num |-> 0, den |-> 1]

\* the JS number n/d (d # 0), in lowest terms with a positive denominator
Rat(n, d) ==
  LET g == GCD(Abs(n), Abs(d))
      s == IF d < 0 THEN -1 ELSE 1
  IN  [nan |-> FALSE, num |-> s * (n \div g), den |-> s * (d \div g)]

Num(n) == Rat(n, 1)

\* JS x * y
JsMul(x, y) ==
  IF x.nan \/ y.nan THEN NaN ELSE Rat(x.num * y.num, x.den * y.den)

\* JS x / y; 0/0 is NaN (x/0 for x # 0 is an infinity, which no modelled
\* computation produces: every caller is listed with its divisor)
JsDiv(x, y) ==
  IF x.nan \/ y.nan \/ y.num = 0 THEN NaN ELSE Rat(x.num * y.den, x.den * y.num)

\* JS x + y
JsAdd(x, y) ==
  IF x.nan \/ y.nan THEN NaN
  ELSE Rat(x.num * y.den + y.num * x.den, x.den * y.den)

\* JS x > y and x < y: false when either side is NaN
JsGt(x, y) == ~x.nan /\ ~y.nan /\ x.num * y.den > y.num * x.den
JsLt(x, y) == JsGt(y, x)

\* Math.ceil: the least integer >= x; NaN stays NaN
MathCeil(x) == IF x.nan THEN NaN ELSE Num(-((-x.num) \div x.den))

\* ------------------------------------------------------------- parseFloat
DigitChars == <<"0", "1", "2", "3", "4", "5", "6", "7", "8", "9">>
IsDigit(c) == \E i \in 1..10 : DigitChars[i] = c
DigitVal(c) == (CHOOSE i \in 1..10 : DigitChars[i] = c) - 1
IsSpace(c) == c = " "

RECURSIVE SkipSpaces(_)
SkipSpaces(s) ==
  IF s # <<>> /\ IsSpace(Head(s)) THEN SkipSpaces(Tail(s)) ELSE s

\* the longest prefix of s made of digits
RECURSIVE DigitPrefix(_)
DigitPrefix(s) ==
  IF s # <<>> /\ IsDigit(Head(s)) THEN <<Head(s)>> \o DigitPrefix(Tail(s)) ELSE <<>>

RECURSIVE DigitsValue(_, _)
DigitsValue(ds, acc) ==
  IF ds = <<>> THEN acc ELSE DigitsValue(Tail(ds), 10 * acc + DigitVal(Head(ds)))

RECURSIVE Pow10(_)
Pow10(k) == IF k = 0 THEN 1 ELSE 10 * Pow10(k - 1)

Drop(s, k) == SubSeq(s, k + 1, Len(s))

\* parseFloat(s): leading white space is skipped, then the longest prefix of
\* the form [+-] digits [. digits] is read; NaN when that prefix has no digit.
\* (Exponents and "Infinity" are not in the modelled alphabet.)
ParseFloat(s) ==
  LET t    == SkipSpaces(s)
      neg  == t # <<>> /\ Head(t) = "-"
      u    == IF t # <<>> /\ Head(t) \in {"-", "+"} THEN Tail(t) ELSE t
      ip   == DigitPrefix(u)
      r    == Drop(u, Len(ip))
      fp   == IF r # <<>> /\ Head(r) = "." THEN DigitPrefix(Tail(r)) ELSE <<>>
      mag  == Rat(DigitsValue(ip, 0) * Pow10(Len(fp)) + DigitsValue(fp, 0),
                  Pow10(Len(fp)))
  IN  IF ip = <<>> /\ fp = <<>> THEN NaN
      ELSE IF neg THEN Rat(-mag.num, mag.den) ELSE mag

\* ------------------------------------------------- JS values of the viewer
\* a JS property that may be undefined
Undefined == [has |-> FALSE, v |-> NaN]
Def(x) == [has |-> TRUE, v |-> x]

\* truthiness of an optional number: undefined, 0 and NaN are falsy
Truthy(o) == o.has /\ ~o.v.nan /\ o.v.num # 0

\* JS a || b on optional numbers
OrElse(a, b) == IF Truthy(a) THEN a ELSE b

\* Math.round: floor(x + 1/2); NaN stays NaN
MathRound(x) == IF x.nan THEN NaN ELSE Num((2 * x.num + x.den) \div (2 * x.den))

\* x.toFixed(d) for x >= 0: the decimal text with d decimals nearest to x, the
\* larger one on a tie; "NaN" for NaN. The text is [digits, units]: units/10^d
\* written with d decimals.
ToFixed(x, d) ==
  IF x.nan THEN [nan |-> TRUE, digits |-> d, units |-> 0]
  ELSE [nan |-> FALSE, digits |-> d,
        units |-> (2 * x.num * Pow10(d) + x.den) \div (2 * x.den)]

\* s.split(sep) on a sequence of characters
RECURSIVE SplitFrom(_, _, _)
SplitFrom(s, sep, cur) ==
  IF s = <<>> THEN <<cur>>
  ELSE IF Head(s) = sep THEN <<cur>> \o SplitFrom(Tail(s), sep, <<>>)
  ELSE SplitFrom(Tail(s), sep, Append(cur, Head(s)))
Split(s, sep) == SplitFrom(s, sep, <<>>)

\* ------------------------------------------------------ response and chart
FnNames == {"pd", "pm", "pym", "pyd"}

\* a field of the response body that is absent, or an array of points
NoField == [has |-> FALSE, v |-> <<>>]
Field(points) == [has |-> TRUE, v |-> points]

\* the array the callbacks of a chart read (generateLabels, lines 310-322)
SeriesOf(fn, data) ==
  CASE fn = "pym" -> data.monthly_values
    [] fn = "pm"  -> data.daily_values
    [] fn = "pd"  -> data.hourly_values
    [] fn = "pyd" -> data.daily_values

\* a condition that takes any of the three arrays, which the code does not do
HasChartDataAny(fn, data) ==
  data.monthly_values.has \/ data.daily_values.has \/ data.hourly_values.has
\* the condition under which fetchData creates a chart; an array, even an
\* empty one, is truthy
HasChartData(fn, data) == SeriesOf(fn, data).has

TextLabel(chars) == [kind |-> "text", s |-> chars, n |-> 0]
HourLabel(h) == [kind |-> "hour", s |-> <<>>, n |-> h]

\* the label of one point (labels = ...map(...))
LabelOf(fn, p) ==
  CASE fn = "pym" -> TextLabel(<<p.month_name>>)
    [] fn = "pm"  -> TextLabel(Split(p.date, "-")[3])
    [] fn = "pd"  -> HourLabel(p.hour)
    [] fn = "pyd" -> LET dateParts == Split(p.date, "-")
                     IN  TextLabel(dateParts[2] \o <<"-">> \o dateParts[3])

\* the values taken from the last point to the first, which the code does not do
ValuesReversed(fn, data) ==
  LET arr == SeriesOf(fn, data).v
  IN  [i \in 1..Len(arr) |-> arr[Len(arr) + 1 - i].kwh]

\* labels, values and percentages of fetchData; array.map(f) gives one entry
\* per element, in the order of the array
Labels(fn, data) ==
  LET arr == SeriesOf(fn, data).v
  IN  [i \in 1..Len(arr) |-> LabelOf(fn, arr[i])]
Values(fn, data) ==
  LET arr == SeriesOf(fn, data).v
  IN  [i \in 1..Len(arr) |-> arr[i].kwh]

\* the percentage fetchData extracts from a point
PercentageOf(fn, p) ==
  CASE fn = "pym" -> p.percent_of_year
    [] fn = "pm"  -> OrElse(p.percentage_of_month, p.percentage_of_year)
    [] fn = "pd"  -> p.percentage_of_day
    [] fn = "pyd" -> p.percentage_of_year
Percentages(fn, data) ==
  LET arr == SeriesOf(fn, data).v
  IN  [i \in 1..Len(arr) |-> PercentageOf(fn, arr[i])]

\* values.reduce((max, v) => (v.kwh > max.kwh ? v : max), values[0]), as the
\* position of the element it returns; 0 stands for undefined, the result on
\* an empty array
RECURSIVE ReduceMaxFrom(_, _, _)
ReduceMaxFrom(vals, i, acc) ==
  IF i > Len(vals) THEN acc
  ELSE ReduceMaxFrom(vals, i + 1, IF JsGt(vals[i].kwh, vals[acc].kwh) THEN i ELSE acc)
\* the same with >= for >: the last of several largest elements
RECURSIVE ReduceMaxLastFrom(_, _, _)
ReduceMaxLastFrom(vals, i, acc) ==
  IF i > Len(vals) THEN acc
  ELSE ReduceMaxLastFrom(vals, i + 1,
         IF ~JsLt(vals[i].kwh, vals[acc].kwh) THEN i ELSE acc)
ReduceMaxLast(vals) == IF vals = <<>> THEN 0 ELSE ReduceMaxLastFrom(vals, 1, 1)
ReduceMax(vals) == IF vals = <<>> THEN 0 ELSE ReduceMaxFrom(vals, 1, 1)

\* values.reduce((min, v) => (v.kwh < min.kwh ? v : min), values[0])
RECURSIVE ReduceMinFrom(_, _, _)
ReduceMinFrom(vals, i, acc) ==
  IF i > Len(vals) THEN acc
  ELSE ReduceMinFrom(vals, i + 1, IF JsLt(vals[i].kwh, vals[acc].kwh) THEN i ELSE acc)
ReduceMin(vals) == IF vals = <<>> THEN 0 ELSE ReduceMinFrom(vals, 1, 1)

\* values.reduce((sum, v) => sum + v.kwh, 0)
RECURSIVE ReduceSumFrom(_, _, _)
ReduceSumFrom(vals, i, sum) ==
  IF i > Len(vals) THEN sum ELSE ReduceSumFrom(vals, i + 1, JsAdd(sum, vals[i].kwh))
\* the same started from the first element instead of 0
ReduceSumFromFirst(vals) ==
  IF vals = <<>> THEN Num(0) ELSE ReduceSumFrom(vals, 1, vals[1].kwh)
ReduceSum(vals) == ReduceSumFrom(vals, 1, Num(0))

\* Math.max(...arr.map(x => x.kwh)) on a non-empty array
RECURSIVE MathMaxFrom(_, _, _)
MathMaxFrom(vals, i, m) ==
  IF i > Len(vals) THEN m
  ELSE MathMaxFrom(vals, i + 1, IF JsGt(vals[i].kwh, m) THEN vals[i].kwh ELSE m)
\* the kwh of the last element, which the code does not take
MathMaxKwhLast(vals) == vals[Len(vals)].kwh
MathMaxKwh(vals) == MathMaxFrom(vals, 2, vals[1].kwh)

\* what the callbacks of one chart close over
Closure(fn, data, date, fmtDate, kategorie) ==
  [fn |-> fn, data |-> data, date |-> date, formattedDate |-> fmtDate,
   kategorie |-> kategorie]

\* the local values of generateLabels
maxValue(c) == ReduceMax(SeriesOf(c.fn, c.data).v)
minValue(c) == ReduceMin(SeriesOf(c.fn, c.data).v)
totalKwh(c) == ReduceSum(SeriesOf(c.fn, c.data).v)
\* the total left undivided, which the code does not do
avgKwhUndivided(c) == totalKwh(c)
avgKwh(c) == JsDiv(totalKwh(c), Num(Len(SeriesOf(c.fn, c.data).v)))

\* maxLabel / minLabel of generateLabels for the element at position i
LegendLabel(fn, p) ==
  CASE fn = "pym" -> TextLabel(<<p.month_name>>)
    [] fn = "pm"  -> TextLabel(Split(p.date, "-")[3])
    [] fn = "pd"  -> HourLabel(p.hour)
    [] fn = "pyd" -> LET parts == Split(p.date, "-")
                     IN  TextLabel(parts[2] \o <<"-">> \o parts[3])

NoText == [nan |-> FALSE, digits |-> 0, units |-> 0]
NoLabel == TextLabel(<<>>)

LegendItem(tag, name, info, label, amount, pct) ==
  [tag |-> tag, name |-> name, info |-> info, label |-> label,
   amount |-> amount, pct |-> pct]

\* the percentage in the legend's Min entry
MinPercent(vals, mx, mn) ==
  MathRound(JsMul(JsDiv(vals[mn].kwh, vals[mx].kwh), Num(100)))

\* generateLabels: reading a property of the undefined maxValue throws a
\* TypeError when the array is empty; otherwise the legend items are returned
generateLabels(c) ==
  LET values     == SeriesOf(c.fn, c.data).v
      dateInfo   == IF c.fn \in {"pym", "pyd"} THEN c.formattedDate ELSE c.date
      mx         == maxValue(c)
      mn         == minValue(c)
      periodName == CASE c.fn = "pym" -> "Year" [] c.fn = "pm" -> "Month"
                      [] c.fn = "pd" -> "Day" [] c.fn = "pyd" -> "Year"
      head       == << LegendItem("Period", periodName, dateInfo, NoLabel, NoText, NaN),
                       LegendItem("Total", "", <<>>, NoLabel, ToFixed(totalKwh(c), 1), NaN) >>
      avg        == IF c.fn = "pyd"
                    THEN << LegendItem("Avg", "", <<>>, NoLabel, ToFixed(avgKwh(c), 1), NaN) >>
                    ELSE << >>
  IN  IF mx = 0
      THEN [threw |-> TRUE, error |-> "TypeError", items |-> << >>]
      ELSE [threw |-> FALSE, error |-> "",
            items |-> head \o avg \o
              << LegendItem("Max", "", <<>>, LegendLabel(c.fn, values[mx]),
                            ToFixed(values[mx].kwh, 1), Num(100)),
                 LegendItem("Min", "", <<>>, LegendLabel(c.fn, values[mn]),
                            ToFixed(values[mn].kwh, 1), MinPercent(values, mx, mn)) >>]

\* the percentage of the tooltip, as text: a number of the response as it is
\* (digits = -1), a computed percentage with one decimal
FieldText(x) == [nan |-> x.nan, digits |-> -1, units |-> x.num, den |-> x.den]
FixedText(t) == [nan |-> t.nan, digits |-> t.digits, units |-> t.units,
                 den |-> Pow10(t.digits)]

\* percentField as the || chain of the tooltip's label callback leaves it
percentField(fn, value) ==
  CASE fn = "pym" -> OrElse(value.percent_of_year, value.percentage_of_year)
    [] fn = "pm"  -> OrElse(value.percentage_of_month,
                       OrElse(value.percent_of_month,
                         OrElse(value.percentage_of_year, value.percent_of_year)))
    [] fn = "pd"  -> OrElse(value.percentage_of_day,
                       OrElse(value.percent_of_day, value.percent))
    [] fn = "pyd" -> OrElse(value.percentage_of_year, value.percent_of_year)

\* a percentage of the sum of the series, which the code does not compute
computedPercentOfSum(vals, value) ==
  IF JsGt(ReduceSum(vals), Num(0))
  THEN FixedText(ToFixed(JsMul(JsDiv(value.kwh, ReduceSum(vals)), Num(100)), 1))
  ELSE FixedText(ToFixed(Num(0), 1))
\* the percentage computed from the largest value of the series
computedPercent(vals, value) ==
  IF JsGt(MathMaxKwh(vals), Num(0))
  THEN FixedText(ToFixed(JsMul(JsDiv(value.kwh, MathMaxKwh(vals)), Num(100)), 1))
  ELSE FixedText(ToFixed(Num(0), 1))

\* the tooltip's label callback for the bar at position index
tooltipLabel(c, index) ==
  LET vals   == SeriesOf(c.fn, c.data).v
      value  == vals[index]
      pf     == percentField(c.fn, value)
      periodName == CASE c.fn = "pym" -> "year" [] c.fn = "pm" -> "month"
                      [] c.fn = "pd" -> "day" [] c.fn = "pyd" -> "year"
  IN  [ kwh     |-> ToFixed(value.kwh, 2),
        percent |-> IF ~pf.has THEN computedPercent(vals, value) ELSE FieldText(pf.v),
        period  |-> periodName ]

\* ------------------------------------------------------------ sizing form
\* Config of src/config.js
Config ==
  LET kW_per_panel == Rat(4, 10)
  IN  [ kW_per_panel        |-> kW_per_panel,
        m2_per_kW           |-> JsDiv(Num(2), kW_per_panel),
        cost_per_kW         |-> Num(2500),
        no_of_panels_per_kW |-> JsDiv(Num(1), kW_per_panel),
        kWh_per_year_per_kW |-> Num(1025) ]

\* the parameters the earlier variant of the submit handler sets itself
LocalParams ==
  LET kW_per_panel == Rat(4, 10)
  IN  [ kW_per_panel        |-> kW_per_panel,
        m2_per_kW           |-> JsDiv(Num(2), kW_per_panel),
        cost_per_kW         |-> Num(2500),
        no_of_panels_per_kW |-> JsDiv(Num(1), kW_per_panel),
        kWh_per_year_per_kW |-> Num(1000) ]

Variants == {"app", "part_000"}

\* characters the user can type into the kW field
KwChars == {"5", ".", "-", " "}

\* the four values of the submit handler, before they are put into the page
\* an area computed from the power rounded up, which the handler does not do
m2Off(c, kWp) == JsMul(c.m2_per_kW, MathCeil(kWp))
m2(c, kWp) == JsMul(c.m2_per_kW, kWp)

cost(c, kWp) == JsMul(c.cost_per_kW, kWp)

\* a panel count left unrounded, which the handler does not do
no_of_panelsOff(c, kWp) == JsMul(c.no_of_panels_per_kW, kWp)
no_of_panels(c, kWp) == MathCeil(JsMul(c.no_of_panels_per_kW, kWp))

kWh_per_year(c, kWp) == MathCeil(JsMul(c.kWh_per_year_per_kW, kWp))

\* resultHTML: the four paragraphs, each holding one value
resultHTML(c, kWp) ==
  [ kind         |-> "results",
    m2           |-> m2(c, kWp),
    cost         |-> cost(c, kWp),
    no_of_panels |-> no_of_panels(c, kWp),
    kWh_per_year |-> kWh_per_year(c, kWp) ]

NoResults == [kind |-> "empty"]

\* monthlyDist of src/app.js: kWh per day per kWp installed
monthlyDistPerKWp ==
  << Rat(9, 10), Rat(15, 10), Rat(31, 10), Rat(48, 10), Rat(45, 10), Rat(40, 10),
     Rat(43, 10), Rat(39, 10), Rat(34, 10), Rat(15, 10), Rat(12, 10), Rat(5, 10) >>

\* monthlyDist of the earlier variant: a sample year of 10,000 kWh
monthlyDist == <<205, 316, 803, 1385, 1460, 1393, 1460, 1240, 926, 410, 265, 137>>

daysInMonth == <<31, 28, 31, 30, 31, 30, 31, 31, 30, 31, 30, 31>>
singlePersonMonthly == <<150, 130, 120, 110, 100, 90, 90, 100, 110, 120, 140, 150>>
familyMonthly == <<410, 370, 350, 320, 290, 250, 250, 290, 320, 350, 390, 410>>

\* monthly.map((kWh, index) => (kWh / daysInMonth[index]).toFixed(2))
DailyAvg(monthly) ==
  [index \in 1..12 |-> FixedText(ToFixed(Rat(monthly[index], daysInMonth[index]), 2))]

\* the three datasets of the chart the submit handler creates
sizingDatasets(v, kWp) ==
  [ production   |-> IF v = "app"
                     THEN [i \in 1..12 |-> FieldText(JsMul(monthlyDistPerKWp[i], kWp))]
                     ELSE DailyAvg(monthlyDist),
    singlePerson |-> DailyAvg(singlePersonMonthly),
    family       |-> DailyAvg(familyMonthly) ]

\* ------------------------------------------------------------ fetchData
\* date.match(/^\d{4}/): the first four characters when all four are digits
YearMatch(date) ==
  IF Len(date) >= 4 /\ \A i \in 1..4 : IsDigit(date[i])
  THEN [has |-> TRUE, v |-> SubSeq(date, 1, 4)]
  ELSE [has |-> FALSE, v |-> <<>>]

\* a year extraction that does not look at the function, which the code does
\* not do
formattedDateAlwaysYear(selectedFunction, date) ==
  IF YearMatch(date).has THEN YearMatch(date).v ELSE date

\* formattedDate of fetchData
formattedDate(selectedFunction, date) ==
  IF selectedFunction \in {"pyd", "pym"} /\ YearMatch(date).has
  THEN YearMatch(date).v
  ELSE date

\* displayDate of the chart title
displayDate(fn, date) ==
  CASE fn \in {"pym", "pyd"} -> formattedDate(fn, date)
    [] fn = "pm" -> LET dateComponents == Split(date, "-")
                    IN  IF Len(dateComponents) >= 2
                        THEN dateComponents[1] \o <<"-">> \o dateComponents[2]
                        ELSE dateComponents[1]
    [] fn = "pd" -> date

\* an option of the category select: its value and its text, the text cut at
\* " (" with the closing parenthesis of the second piece removed
Option(value, pieces) == [value |-> value, pieces |-> pieces]

\* longName of the chart title
longName(option, data) ==
  IF Len(option.pieces) >= 2 /\ option.pieces[2] # "" THEN option.pieces[2]
  ELSE IF data.category_name # "" THEN data.category_name
  ELSE ""

\* chartConfig: what new Chart(ctx, chartConfig) is given
chartConfig(c, option) ==
  [ type     |-> IF c.fn = "pyd" THEN "line" ELSE "bar",
    labels   |-> Labels(c.fn, c.data),
    values   |-> Values(c.fn, c.data),
    dataset  |-> IF c.data.category_name # "" THEN c.data.category_name
                 ELSE c.kategorie,
    title    |-> [shortName |-> option.value, longName |-> longName(option, c.data),
                  displayDate |-> displayDate(c.fn, c.date)],
    closure  |-> c ]

\* ------------------------------------------------- inputs: response bodies
MonthNames ==
  <<"Jan", "Feb", "Mar", "Apr", "May", "Jun", "Jul", "Aug", "Sep", "Oct", "Nov", "Dec">>

\* "2024-06-29", the date the page starts with
DefaultDate == <<"2", "0", "2", "4", "-", "0", "6", "-", "2", "9">>

\* the date of the i-th daily point of a response
DateOf(i) ==
  <<"2", "0", "2", "4", "-", "0", "6", "-",
    DigitChars[(i \div 10) + 1], DigitChars[(i % 10) + 1]>>

\* the i-th point of a response: its key for each granularity, its kwh, and
\* the percentage field `name` (none when name is not a percentage field)
Point(i, kwh, name, pct) ==
  LET P(n) == IF n = name THEN Def(pct) ELSE Undefined
  IN  [ month_name          |-> MonthNames[i],
        date                |-> DateOf(i),
        hour                |-> i - 1,
        kwh                 |-> kwh,
        percent_of_year     |-> P("percent_of_year"),
        percentage_of_year  |-> P("percentage_of_year"),
        percentage_of_month |-> P("percentage_of_month"),
        percent_of_month    |-> P("percent_of_month"),
        percentage_of_day   |-> P("percentage_of_day"),
        percent_of_day      |-> P("percent_of_day"),
        percent             |-> P("percent") ]

\* a response body with the array `points` under the field function fn reads
Body(fn, points, category_name) ==
  [ monthly_values |-> IF fn = "pym" THEN Field(points) ELSE NoField,
    daily_values   |-> IF fn \in {"pm", "pyd"} THEN Field(points) ELSE NoField,
    hourly_values  |-> IF fn = "pd" THEN Field(points) ELSE NoField,
    category_name  |-> category_name,
    detail         |-> "" ]

\* a response body without any of the three arrays
BodyWithoutValues == 
  [ monthly_values |-> NoField, daily_values |-> NoField,
    hourly_values |-> NoField, category_name |-> "", detail |-> "" ]

\* a series of n points of a response to function fn: the kwh of each point,
\* and either no percentage field (name "none") or the field `name` on every
\* point, 0 on the point at position zeroAt and 40 on the others
SeriesWith(n, kw, name, zeroAt) ==
  [i \in 1..n |-> Point(i, kw[i], name, IF i = zeroAt THEN Num(0) ELSE Num(40))]

\* the percentage fields the tooltip of function fn looks at
PercentNamesOf(fn) ==
  CASE fn = "pym" -> {"percent_of_year", "percentage_of_year"}
    [] fn = "pm"  -> {"percentage_of_month", "percent_of_month",
                      "percentage_of_year", "percent_of_year"}
    [] fn = "pd"  -> {"percentage_of_day", "percent_of_day", "percent"}
    [] fn = "pyd" -> {"percentage_of_year", "percent_of_year"}

\* -------------------------------------------------------------- the pages
VARIABLES
  variant,      \* which sizing script the page runs
  config,       \* the coefficient object the handler reads
  kWField,      \* text of the kW input of the sizing form
  sizingResults,\* content of the sizing page's #results element
  myChart,      \* the datasets drawn on the canvas #myChart
  chartReuse    \* what new Chart() does on a canvas that holds a chart

sizingVars == <<variant, config, kWField, sizingResults, myChart, chartReuse>>

VARIABLES
  functionSelect,  \* value of #function-select
  functionTitle,   \* title attribute of #function-select
  fadeIn,          \* #output-area carries the class fade-in
  dateInput,       \* text of #date-input
  kategorieSelect, \* options of #kategorie-select and the selected one
  categories,      \* loadCategories: "loading" until its request settles
  resultsArea,     \* text of #results, line by line
  chartArea,       \* children of #chart-area
  currentData,     \* the stored response, or null
  requests,        \* the fetchData invocations waiting at an await
  nextId,          \* number of the next request
  listeners,       \* which copy buttons have their click listener
  fetchButton,     \* class and content of #fetch-button
  buttonTimers,    \* pending timeouts that reset #fetch-button
  clipboard,       \* the text last written to the clipboard
  copyButton,      \* content of #copy-button and its pending timeouts
  copyTableButton, \* content of #copy-table-button and its pending timeouts
  uncaught         \* message of the last exception no handler caught

\* what the two copy handlers write
copyVars == <<clipboard, copyButton, copyTableButton, uncaught>>

viewerVars ==
  <<functionSelect, functionTitle, fadeIn, dateInput, kategorieSelect, categories,
    resultsArea, chartArea, currentData, requests, nextId, listeners,
    fetchButton, buttonTimers, copyVars>>

VARIABLES
  aggIn,      \* what the callbacks of the chart close over
  aggChart,   \* the chart built from it
  aggOut      \* what the last call of a callback of the chart returned

aggVars == <<aggIn, aggChart, aggOut>>

vars == <<sizingVars, viewerVars, aggVars>>

Null == [has |-> FALSE]
Data(body) == [has |-> TRUE, v |-> body]

Line(t, msg) == [t |-> t, msg |-> msg]

\* text of the option of #function-select with the given value
FunctionText(f) ==
  CASE f = "pd" -> "Plot Day" [] f = "pm" -> "Plot Month"
    [] f = "pym" -> "Plot Year Months" [] f = "pyd" -> "Plot Year Days"

\* the clipboard before the page has written to it
NoClipboard == [kind |-> "none"]

\* kategorieSelect.value and the selected option; selected = 0 stands for a
\* selectedIndex of -1
kategorieValue(sel) == IF sel.selected = 0 THEN "" ELSE sel.options[sel.selected].value

ViewerInit ==
  /\ functionSelect = "pd"
  /\ functionTitle = FunctionText("pd")
  /\ fadeIn = FALSE
  /\ dateInput = DefaultDate
  /\ kategorieSelect = [options |-> << Option("H0", <<"Loading categories...">>) >>,
                        selected |-> 1]
  /\ categories = "loading"
  /\ resultsArea = << Line("ready", "") >>
  /\ chartArea = << [el |-> "no-data-message"] >>
  /\ currentData = Null
  /\ requests = {}
  /\ nextId = 1
  /\ listeners = [copy |-> FALSE, table |-> FALSE]
  /\ fetchButton = [success |-> FALSE, html |-> "initial"]
  /\ buttonTimers = 0
  /\ clipboard = NoClipboard
  /\ copyButton = [text |-> "initial", timers |-> 0]
  /\ copyTableButton = [text |-> "initial", timers |-> 0]
  /\ uncaught = ""

NoChart == [kind |-> "none"]

\* the sizing page at rest
SizingIdle ==
  /\ variant = "app"
  /\ config = Config
  /\ kWField = <<>>
  /\ sizingResults = NoResults
  /\ myChart = NoChart
  /\ chartReuse = "redraws"

AggIdle ==
  /\ aggIn = NoChart
  /\ aggChart = NoChart
  /\ aggOut = NoChart

\* ------------------------------------------------------ the viewer runs
\* date.trim()
RECURSIVE TrimEnd(_)
TrimEnd(s) ==
  IF s # <<>> /\ IsSpace(s[Len(s)]) THEN TrimEnd(SubSeq(s, 1, Len(s) - 1)) ELSE s
Trim(s) == TrimEnd(SkipSpaces(s))

\* yearlySumInput.value, set when the page loads
yearlySum == "8500"

\* encodeURIComponent on the characters of a date text: digits and "-" are
\* unreserved and stay, a space becomes %20 and a slash %2F
RECURSIVE encodeURIComponent(_)
encodeURIComponent(str) ==
  IF str = << >> THEN << >>
  ELSE (CASE str[1] = " " -> <<"%", "2", "0">>
          [] str[1] = "/" -> <<"%", "2", "F">>
          [] OTHER        -> << str[1] >>)
       \o encodeURIComponent(Tail(str))

\* apiUrl of fetchData: the path and the three query parameters; the category
\* values and the yearly sum consist of letters and digits, which
\* encodeURIComponent leaves as they are
apiUrl(selectedFunction, fmtDate, kategorie) ==
  [ path |-> selectedFunction, date |-> encodeURIComponent(fmtDate),
    kategorie |-> kategorie, yearly_sum |-> yearlySum ]

\* texts the user puts into the date field: "2024-06-29" and " "
DateInputs == { DefaultDate, <<" ">> }

\* HTTP status codes of the responses
Statuses == {200, 500}
StatusOk(status) == status = 200

\* kwh of the points of a response in a run of the viewer
UiKwh == {Num(1)}

\* response bodies of a successful request
UiBodies ==
  {BodyWithoutValues, Body("pym", SeriesWith(1, <<Num(1)>>, "none", 0), "Haushalt")}
  \cup UNION { { Body(fn, SeriesWith(n, kw, "none", 0), "") : kw \in [1..n -> UiKwh] } :
               fn \in {"pym", "pm", "pd"}, n \in 0..UiMaxLen }

\* response bodies of a failed request: with and without a detail
ErrorBodies ==
  { [BodyWithoutValues EXCEPT !.detail = d] : d \in {"", "Invalid date format"} }

\* `HTTP error! status: ${response.status}`
HttpErrorText(status) ==
  CASE status = 500 -> "HTTP error! status: 500"
    [] status = 200 -> "HTTP error! status: 200"

\* errorDetail of fetchData
errorDetail(data, status) ==
  IF data.detail # "" THEN data.detail ELSE HttpErrorText(status)

\* category lists /api/categories answers with
CategoryLists ==
  { << Option("G0", <<"G0", "Gewerbe">>), Option("H0", <<"H0", "Haushalt">>) >> }

\* kategorieSelect.value = "H0": the first option with that value is selected,
\* none when there is no such option
SelectValue(options, value) ==
  IF \E i \in 1..Len(options) : options[i].value = value
  THEN CHOOSE i \in 1..Len(options) :
         /\ options[i].value = value
         /\ \A j \in 1..(i - 1) : options[j].value # value
  ELSE 0

\* loadCategories, from the answer of its request to its end
CategoriesLoaded(cats) ==
  /\ categories = "loading"
  /\ categories' = "loaded"
  /\ kategorieSelect' = [options |-> cats, selected |-> SelectValue(cats, "H0")]
  /\ UNCHANGED <<functionSelect, functionTitle, fadeIn, dateInput, resultsArea,
                 chartArea, currentData, requests, nextId, listeners, fetchButton,
                 buttonTimers, copyVars,
                 sizingVars, aggVars>>

\* loadCategories when its request fails or answers with an error status
CategoriesFailed(msg) ==
  /\ categories = "loading"
  /\ categories' = "failed"
  /\ kategorieSelect' = [options |-> << Option("", <<"Error loading">>) >>,
                         selected |-> 1]
  /\ resultsArea' = << Line("caterror", msg) >>
  /\ UNCHANGED <<functionSelect, functionTitle, fadeIn, dateInput, chartArea,
                 currentData, requests, nextId, listeners, fetchButton,
                 buttonTimers, copyVars,
                 sizingVars, aggVars>>

\* a change of the function that also sends a request, which the code does
\* not do
SelectFunctionFetches(f) ==
  /\ f # functionSelect
  /\ functionSelect' = f
  /\ fadeIn' = TRUE
  /\ functionTitle' = FunctionText(f)
  /\ requests' = requests \cup
       { [ id |-> 0, pc |-> "fetch", status |-> 0, selectedFunction |-> f,
           date |-> Trim(dateInput),
           formattedDate |-> formattedDate(f, Trim(dateInput)),
           kategorie |-> kategorieValue(kategorieSelect),
           apiUrl |-> apiUrl(f, formattedDate(f, Trim(dateInput)),
                             kategorieValue(kategorieSelect)) ] }
  /\ UNCHANGED <<dateInput, kategorieSelect, categories, resultsArea, chartArea,
                 currentData, nextId, listeners, fetchButton,
                 buttonTimers, copyVars,
                 sizingVars, aggVars>>

\* the user picks a function: both change listeners of #function-select run
SelectFunction(f) ==
  /\ f # functionSelect
  /\ functionSelect' = f
  /\ fadeIn' = TRUE
  /\ functionTitle' = FunctionText(f)
  /\ UNCHANGED <<dateInput, kategorieSelect, categories, resultsArea, chartArea,
                 currentData, requests, nextId, listeners, fetchButton,
                 buttonTimers, copyVars,
                 sizingVars, aggVars>>

\* the user replaces the text of the date field
EditDate(d) ==
  /\ d # dateInput
  /\ dateInput' = d
  /\ UNCHANGED <<functionSelect, functionTitle, fadeIn, kategorieSelect, categories,
                 resultsArea, chartArea, currentData, requests, nextId, listeners,
                 fetchButton, buttonTimers, copyVars,
                 sizingVars, aggVars>>

\* a validation that also clears the chart area and the stored data, which
\* the code does not do
FetchClickNoDateClears ==
  /\ Trim(dateInput) = <<>>
  /\ resultsArea' = << Line("please", "") >>
  /\ chartArea' = << >>
  /\ currentData' = Null
  /\ UNCHANGED <<functionSelect, functionTitle, fadeIn, dateInput, kategorieSelect,
                 categories, requests, nextId, listeners,
                 fetchButton, buttonTimers, copyVars,
                 sizingVars, aggVars>>

\* fetchData from the click to its first await, with an empty date
FetchClickNoDate ==
  /\ Trim(dateInput) = <<>>
  /\ resultsArea' = << Line("please", "") >>
  /\ UNCHANGED <<functionSelect, functionTitle, fadeIn, dateInput, kategorieSelect,
                 categories, chartArea, currentData, requests, nextId, listeners,
                 fetchButton, buttonTimers, copyVars,
                 sizingVars, aggVars>>

\* fetchData from the click to its first await: the request is sent
FetchClick ==
  LET selectedFunction == functionSelect
      date             == Trim(dateInput)
      kategorie        == kategorieValue(kategorieSelect)
      fmtDate          == formattedDate(selectedFunction, date)
  IN  /\ date # <<>>
      /\ nextId <= MaxFetches
      /\ requests' = requests \cup
           { [ id |-> nextId, pc |-> "fetch", status |-> 0,
               selectedFunction |-> selectedFunction, date |-> date,
               formattedDate |-> fmtDate, kategorie |-> kategorie,
               apiUrl |-> apiUrl(selectedFunction, fmtDate, kategorie) ] }
      /\ nextId' = nextId + 1
      /\ resultsArea' = << Line("fetching", "") >>
      /\ chartArea' = << [el |-> "loading"] >>
      /\ UNCHANGED <<functionSelect, functionTitle, fadeIn, dateInput,
                     kategorieSelect, categories, currentData, listeners,
                     fetchButton, buttonTimers, copyVars,
                 sizingVars, aggVars>>

\* a catch block that displays nothing, which the code does not have
CatchBlockSilent(r, message) ==
  /\ chartArea' = chartArea
  /\ resultsArea' = resultsArea
  /\ currentData' = Null
  /\ requests' = requests \ {r}

\* a catch block that leaves the stored data as it is, which the code does
\* not do
CatchBlockKeepsData(r, message) ==
  /\ chartArea' = << [el |-> "error", msg |-> message] >>
  /\ resultsArea' = << Line("error", message) >>
  /\ currentData' = currentData
  /\ requests' = requests \ {r}

\* the catch block of fetchData
CatchBlock(r, message) ==
  /\ chartArea' = << [el |-> "error", msg |-> message] >>
  /\ resultsArea' = << Line("error", message) >>
  /\ currentData' = Null
  /\ requests' = requests \ {r}

\* await fetch(apiUrl) answers: fetchData goes on to await response.json()
FetchAnswers(r, status) ==
  /\ r \in requests /\ r.pc = "fetch"
  /\ requests' = (requests \ {r}) \cup {[r EXCEPT !.pc = "json", !.status = status]}
  /\ UNCHANGED <<functionSelect, functionTitle, fadeIn, dateInput, kategorieSelect,
                 categories, resultsArea, chartArea, currentData, nextId, listeners,
                 fetchButton, buttonTimers, copyVars,
                 sizingVars, aggVars>>

\* await fetch(apiUrl) rejects (network error), or await response.json()
\* rejects (a body that is no JSON)
AwaitRejects(r) ==
  /\ r \in requests
  /\ CatchBlock(r, IF r.pc = "fetch" THEN "Failed to fetch"
                   ELSE "Unexpected token < in JSON at position 0")
  /\ UNCHANGED <<functionSelect, functionTitle, fadeIn, dateInput, kategorieSelect,
                 categories, nextId, listeners, fetchButton, buttonTimers,
                 copyVars,
                 sizingVars, aggVars>>

\* response.json() gives the body of a response whose status is not OK
ErrorBodyRead(r, data) ==
  /\ r \in requests /\ r.pc = "json" /\ ~StatusOk(r.status)
  /\ CatchBlock(r, errorDetail(data, r.status))
  /\ UNCHANGED <<functionSelect, functionTitle, fadeIn, dateInput, kategorieSelect,
                 categories, nextId, listeners, fetchButton, buttonTimers,
                 copyVars,
                 sizingVars, aggVars>>

\* the error, if any, that creating the chart throws: the selected option is
\* undefined when no category is selected; generateLabels throws on an empty
\* array, inside new Chart() when the chart builds its legend at once (eager)
ChartError(r, data, eager) ==
  IF ~HasChartData(r.selectedFunction, data) THEN ""
  ELSE IF kategorieSelect.selected = 0
  THEN "Cannot read properties of undefined (reading 'value')"
  ELSE IF eager /\ generateLabels(Closure(r.selectedFunction, data, r.date,
                                          r.formattedDate, r.kategorie)).threw
  THEN "Cannot read properties of undefined"
  ELSE ""

\* a handler that appends the canvas without clearing the chart area first,
\* which the code does not do
BodyReadAppends(r, data, eager) ==
  LET err == ChartError(r, data, eager)
      c   == Closure(r.selectedFunction, data, r.date, r.formattedDate, r.kategorie)
  IN  /\ r \in requests /\ r.pc = "json" /\ StatusOk(r.status)
      /\ listeners' = [copy |-> TRUE, table |-> TRUE]
      /\ fetchButton' = [success |-> TRUE, html |-> "success"]
      /\ buttonTimers' = buttonTimers + 1
      /\ IF err # ""
         THEN CatchBlock(r, err)
         ELSE /\ currentData' = Data(data)
              /\ resultsArea' = << Line("success", "") >>
              /\ chartArea' =
                   IF HasChartData(r.selectedFunction, data)
                   THEN Append(chartArea,
                          [el |-> "canvas",
                           chart |-> chartConfig(c,
                             kategorieSelect.options[kategorieSelect.selected])])
                   ELSE chartArea
              /\ requests' = requests \ {r}
      /\ UNCHANGED <<functionSelect, functionTitle, fadeIn, dateInput,
                     kategorieSelect, categories, nextId, copyVars,
                 sizingVars, aggVars>>

\* a handler that drops the response of a request that is not the one issued
\* last, which the code does not do
BodyReadLatestOnly(r, data, eager) ==
  LET err == ChartError(r, data, eager)
      c   == Closure(r.selectedFunction, data, r.date, r.formattedDate, r.kategorie)
      stale == r.id < nextId - 1
  IN  /\ r \in requests /\ r.pc = "json" /\ StatusOk(r.status)
      /\ listeners' = IF stale THEN listeners ELSE [copy |-> TRUE, table |-> TRUE]
      /\ fetchButton' = IF stale THEN fetchButton
                        ELSE [success |-> TRUE, html |-> "success"]
      /\ buttonTimers' = IF stale THEN buttonTimers ELSE buttonTimers + 1
      /\ IF stale
         THEN /\ requests' = requests \ {r}
              /\ UNCHANGED <<currentData, resultsArea, chartArea>>
         ELSE IF err # ""
         THEN CatchBlock(r, err)
         ELSE /\ currentData' = Data(data)
              /\ resultsArea' = << Line("success", "") >>
              /\ chartArea' =
                   IF HasChartData(r.selectedFunction, data)
                   THEN << [el |-> "canvas",
                            chart |-> chartConfig(c,
                              kategorieSelect.options[kategorieSelect.selected])] >>
                   ELSE << >>
              /\ requests' = requests \ {r}
      /\ UNCHANGED <<functionSelect, functionTitle, fadeIn, dateInput,
                     kategorieSelect, categories, nextId, copyVars,
                 sizingVars, aggVars>>

\* response.json() gives the body of a response whose status is OK: fetchData
\* runs to its end
BodyRead(r, data, eager) ==
  LET err == ChartError(r, data, eager)
      c   == Closure(r.selectedFunction, data, r.date, r.formattedDate, r.kategorie)
  IN  /\ r \in requests /\ r.pc = "json" /\ StatusOk(r.status)
      /\ listeners' = [copy |-> TRUE, table |-> TRUE]
      /\ fetchButton' = [success |-> TRUE, html |-> "success"]
      /\ buttonTimers' = buttonTimers + 1
      /\ IF err # ""
         THEN CatchBlock(r, err)
         ELSE /\ currentData' = Data(data)
              /\ resultsArea' = << Line("success", "") >>
              /\ chartArea' =
                   IF HasChartData(r.selectedFunction, data)
                   THEN << [el |-> "canvas",
                            chart |-> chartConfig(c,
                              kategorieSelect.options[kategorieSelect.selected])] >>
                   ELSE << >>
              /\ requests' = requests \ {r}
      /\ UNCHANGED <<functionSelect, functionTitle, fadeIn, dateInput,
                     kategorieSelect, categories, nextId, copyVars,
                 sizingVars, aggVars>>

\* a timeout set by a successful fetch fires
ButtonTimerFires ==
  /\ buttonTimers > 0
  /\ buttonTimers' = buttonTimers - 1
  /\ fetchButton' = [success |-> FALSE, html |-> "generate"]
  /\ UNCHANGED <<functionSelect, functionTitle, fadeIn, dateInput, kategorieSelect,
                 categories, resultsArea, chartArea, currentData, requests, nextId,
                 listeners, copyVars,
                 sizingVars, aggVars>>

Next ==
  \/ \E cats \in CategoryLists : CategoriesLoaded(cats)
  \/ \E msg \in {"Failed to fetch", "HTTP error! status: 500"} : CategoriesFailed(msg)
  \/ \E f \in FnNames : SelectFunction(f)
  \/ \E d \in DateInputs : EditDate(d)
  \/ FetchClickNoDate
  \/ FetchClick
  \/ \E r \in requests, status \in Statuses : FetchAnswers(r, status)
  \/ \E r \in requests : AwaitRejects(r)
  \/ \E r \in requests, data \in ErrorBodies : ErrorBodyRead(r, data)
  \/ \E r \in requests, data \in UiBodies, eager \in BOOLEAN : BodyRead(r, data, eager)
  \/ ButtonTimerFires

Init == SizingIdle /\ ViewerInit /\ AggIdle

Spec == Init /\ [][Next]_vars

\* ------------------------------------------- the chart callbacks alone
\* ------------------------------------------------------- the copy handlers
\* JSON.stringify(currentData, null, 2): the text of the stored response
JsonText(data) == [kind |-> "json", value |-> data]

\* formatNumber(num, decimals): toFixed with a comma for the decimal point
formatNumber(num, decimals) == [fixed |-> ToFixed(num, decimals), point |-> ","]

\* titleInfo.functionName of copyTableData
functionName(selectedFunction) ==
  CASE selectedFunction = "pd"  -> "Daily Profile (hourly data)"
    [] selectedFunction = "pm"  -> "Monthly Profile (daily data)"
    [] selectedFunction = "pym" -> "Yearly Profile (monthly data)"
    [] selectedFunction = "pyd" -> "Yearly Profile (daily data)"

\* categoryLongName of copyTableData
categoryLongName(option, kategorie) ==
  IF Len(option.pieces) >= 2 /\ option.pieces[2] # "" THEN option.pieces[2]
  ELSE kategorie

\* `${String(hour.hour).padStart(2, "0")}:00`
formattedHour(h) ==
  (IF h < 10 THEN <<"0", DigitChars[h + 1]>>
   ELSE <<DigitChars[(h \div 10) + 1], DigitChars[(h % 10) + 1]>>) \o <<":", "0", "0">>

\* a choice of the layout from the arrays of the stored response alone, which
\* the code does not make
TableBranchOfData(selectedFunction, data) ==
  IF data.hourly_values.has THEN "pd"
  ELSE IF data.daily_values.has THEN "pm"
  ELSE IF data.monthly_values.has THEN "pym"
  ELSE "none"

\* the branch of copyTableData that formats the stored data: "none" when the
\* data has no field for the selected function
TableBranch(selectedFunction, data) ==
  IF selectedFunction = "pd" /\ data.hourly_values.has THEN "pd"
  ELSE IF selectedFunction = "pm" /\ data.daily_values.has THEN "pm"
  ELSE IF selectedFunction = "pym" /\ data.monthly_values.has THEN "pym"
  ELSE IF selectedFunction = "pyd" /\ data.daily_values.has THEN "pyd"
  ELSE "none"

\* the header and the rows of the table, one row per point in input order
TableHeader(branch) ==
  CASE branch = "pd" -> <<"Hour", "KWh">> [] branch = "pm" -> <<"Date", "KWh">>
    [] branch = "pym" -> <<"Month", "KWh">> [] branch = "pyd" -> <<"Date", "KWh">>
TableRow(branch, p) ==
  [ key |-> CASE branch = "pd"  -> formattedHour(p.hour)
              [] branch = "pm"  -> Split(p.date, "-")[3]
              [] branch = "pym" -> <<p.month_name>>
              [] branch = "pyd" -> p.date,
    kwh |-> formatNumber(p.kwh, 2) ]
TableRows(branch, data) ==
  LET arr == SeriesOf(branch, data).v
  IN  [i \in 1..Len(arr) |-> TableRow(branch, arr[i])]

\* tableData of copyTableData: the title rows, the header and the rows
tableData(selectedFunction, date, kategorie, option, data) ==
  [ kind             |-> "table",
    functionName     |-> functionName(selectedFunction),
    period           |-> date,
    category         |-> kategorie,
    categoryLongName |-> categoryLongName(option, kategorie),
    yearlySum        |-> formatNumber(Num(8500), 2),
    header           |-> TableHeader(TableBranch(selectedFunction, data)),
    rows             |-> TableRows(TableBranch(selectedFunction, data), data) ]

\* a copy handler without the test of the stored data, which the code does
\* not have
CopyJsonClickUnguarded(written) ==
  /\ listeners.copy
  /\ written
  /\ copyButton.timers < MaxCopyTimers
  /\ clipboard' = IF currentData = Null THEN [kind |-> "json", value |-> "null"]
                  ELSE JsonText(currentData.v)
  /\ copyButton' = [text |-> "Copied!", timers |-> copyButton.timers + 1]
  /\ UNCHANGED <<functionSelect, functionTitle, fadeIn, dateInput, kategorieSelect,
                 categories, resultsArea, chartArea, currentData, requests, nextId,
                 listeners, fetchButton, buttonTimers, copyTableButton, uncaught,
                 sizingVars, aggVars>>

\* a click on #copy-button. The button has no listener before the first
\* successful fetch. writeText may be refused (written = FALSE): the handler
\* only logs that. The write and its then-callback are one step.
CopyJsonClick(written) ==
  /\ listeners.copy
  /\ currentData # Null
  /\ written
  /\ copyButton.timers < MaxCopyTimers
  /\ clipboard' = JsonText(currentData.v)
  /\ copyButton' = [text |-> "Copied!", timers |-> copyButton.timers + 1]
  /\ UNCHANGED <<functionSelect, functionTitle, fadeIn, dateInput, kategorieSelect,
                 categories, resultsArea, chartArea, currentData, requests, nextId,
                 listeners, fetchButton, buttonTimers, copyTableButton, uncaught,
                 sizingVars, aggVars>>

\* the timeout set by a copy of the JSON text fires
CopyTimerFires ==
  /\ copyButton.timers > 0
  /\ copyButton' = [text |-> "Copy JSON", timers |-> copyButton.timers - 1]
  /\ UNCHANGED <<functionSelect, functionTitle, fadeIn, dateInput, kategorieSelect,
                 categories, resultsArea, chartArea, currentData, requests, nextId,
                 listeners, fetchButton, buttonTimers, clipboard, copyTableButton,
                 uncaught,
                 sizingVars, aggVars>>

\* a click on #copy-table-button with its listener registered and data
\* stored. Reading the text of the selected option throws when no option is
\* selected; that is outside the try block, so nothing catches it and the
\* handler ends there. Otherwise the table is formatted and written, or the
\* catch block adds its line to the results area.
CopyTableClick(written) ==
  LET selectedFunction == functionSelect
      kategorie        == kategorieValue(kategorieSelect)
      date             == Trim(dateInput)
  IN  /\ listeners.table
      /\ currentData # Null
      /\ IF kategorieSelect.selected = 0
         THEN /\ uncaught' = "Cannot read properties of undefined (reading 'textContent')"
              /\ UNCHANGED <<clipboard, copyTableButton, resultsArea>>
         ELSE IF TableBranch(selectedFunction, currentData.v) = "none"
         THEN /\ Len(resultsArea) < MaxLines
              /\ resultsArea' = Append(resultsArea,
                   Line("tableerror", "No compatible data found to format as table"))
              /\ UNCHANGED <<clipboard, copyTableButton, uncaught>>
         ELSE /\ written
              /\ copyTableButton.timers < MaxCopyTimers
              /\ clipboard' = tableData(selectedFunction, date, kategorie,
                                kategorieSelect.options[kategorieSelect.selected],
                                currentData.v)
              /\ copyTableButton' = [text |-> "Table Copied!",
                                      timers |-> copyTableButton.timers + 1]
              /\ UNCHANGED <<resultsArea, uncaught>>
      /\ UNCHANGED <<functionSelect, functionTitle, fadeIn, dateInput, kategorieSelect,
                     categories, chartArea, currentData, requests, nextId,
                     listeners, fetchButton, buttonTimers, copyButton,
                     sizingVars, aggVars>>

\* the timeout set by a copy of the table fires
CopyTableTimerFires ==
  /\ copyTableButton.timers > 0
  /\ copyTableButton' = [text |-> "Copy as Table", timers |-> copyTableButton.timers - 1]
  /\ UNCHANGED <<functionSelect, functionTitle, fadeIn, dateInput, kategorieSelect,
                 categories, resultsArea, chartArea, currentData, requests, nextId,
                 listeners, fetchButton, buttonTimers, clipboard, copyButton,
                 uncaught,
                 sizingVars, aggVars>>

\* category lists /api/categories answers with in a run with the copy
\* buttons: with H0, and without it, which leaves no option selected
CopyCategoryLists ==
  CategoryLists \cup { << Option("G0", <<"G0", "Gewerbe">>) >> }

\* response bodies of a successful request in a run with the copy buttons:
\* without any array, and with one point for each of the three arrays
CopyBodies ==
  {BodyWithoutValues} \cup
  { Body(fn, SeriesWith(1, <<Num(1)>>, "none", 0), "") : fn \in {"pym", "pm", "pd"} }

\* the viewer with its copy buttons in use: the user waits for a request to
\* settle before the next click on the fetch button
CopyNext ==
  \/ \E cats \in CopyCategoryLists : CategoriesLoaded(cats)
  \/ \E f \in FnNames : SelectFunction(f)
  \/ requests = {} /\ FetchClick
  \/ \E r \in requests, status \in Statuses : FetchAnswers(r, status)
  \/ \E r \in requests : AwaitRejects(r)
  \/ \E r \in requests, data \in ErrorBodies : ErrorBodyRead(r, data)
  \/ \E r \in requests, data \in CopyBodies, eager \in BOOLEAN : BodyRead(r, data, eager)
  \/ ButtonTimerFires
  \/ \E written \in BOOLEAN : CopyJsonClick(written)
  \/ CopyTimerFires
  \/ \E written \in BOOLEAN : CopyTableClick(written)
  \/ CopyTableTimerFires

SpecCopy == Init /\ [][CopyNext]_vars

\* ------------------------------------------- the date sent in a request
\* the characters typed into the date field
DateChars == {"2", "4", "-", " "}

RECURSIVE TextsOfLen(_)
TextsOfLen(n) ==
  IF n = 0 THEN { << >> }
  ELSE { Append(t, c) : t \in TextsOfLen(n - 1), c \in DateChars }

\* the texts of the date field, a text input: anything the user types
EnteredDates == UNION { TextsOfLen(n) : n \in 0..MaxDateLen }

\* the page after the user has picked a function and typed a date
DateInit ==
  /\ SizingIdle
  /\ AggIdle
  /\ functionSelect \in FnNames
  /\ functionTitle = FunctionText(functionSelect)
  /\ fadeIn = (functionSelect # "pd")
  /\ dateInput \in EnteredDates
  /\ kategorieSelect = [options |-> << Option("H0", <<"Loading categories...">>) >>,
                        selected |-> 1]
  /\ categories = "loading"
  /\ resultsArea = << Line("ready", "") >>
  /\ chartArea = << [el |-> "no-data-message"] >>
  /\ currentData = Null
  /\ requests = {}
  /\ nextId = 1
  /\ listeners = [copy |-> FALSE, table |-> FALSE]
  /\ fetchButton = [success |-> FALSE, html |-> "initial"]
  /\ buttonTimers = 0
  /\ clipboard = NoClipboard
  /\ copyButton = [text |-> "initial", timers |-> 0]
  /\ copyTableButton = [text |-> "initial", timers |-> 0]
  /\ uncaught = ""

\* clicks on the fetch button
DateNext ==
  \/ FetchClickNoDate
  \/ FetchClick

SpecDate == DateInit /\ [][DateNext]_vars

\* ------------------------------------------------ overlapping fetches
\* the bodies the server answers request r with: the array the function of
\* the request reads, empty or with one point whose kwh is the number of the
\* request
RaceBodies(r) ==
  { Body(r.selectedFunction,
         SeriesWith(n, [i \in 1..n |-> Num(r.id)], "none", 0), "") : n \in 0..1 }

\* clicks on the fetch button at any time, and the requests settling in any
\* order
RaceNext ==
  \/ \E f \in FnNames : SelectFunction(f)
  \/ FetchClick
  \/ \E r \in requests, status \in Statuses : FetchAnswers(r, status)
  \/ \E r \in requests : AwaitRejects(r)
  \/ \E r \in requests, data \in ErrorBodies : ErrorBodyRead(r, data)
  \/ \E r \in requests, eager \in BOOLEAN :
       \E data \in RaceBodies(r) : BodyRead(r, data, eager)
  \/ ButtonTimerFires

SpecRace == Init /\ [][RaceNext]_vars

\* ------------------------------------------- requests that all settle
\* overlapping fetches, with clicks while the date field is empty
LiveNext ==
  \/ \E f \in FnNames : SelectFunction(f)
  \/ \E d \in DateInputs : EditDate(d)
  \/ FetchClickNoDate
  \/ FetchClick
  \/ \E r \in requests, status \in Statuses : FetchAnswers(r, status)
  \/ \E r \in requests : AwaitRejects(r)
  \/ \E r \in requests, data \in ErrorBodies : ErrorBodyRead(r, data)
  \/ \E r \in requests, eager \in BOOLEAN :
       \E data \in RaceBodies(r) : BodyRead(r, data, eager)
  \/ ButtonTimerFires

\* the next step of the fetchData invocation number id: each of its two
\* awaits is answered or rejects
Continues(id) ==
  \E r \in requests :
    /\ r.id = id
    /\ \/ \E status \in Statuses : FetchAnswers(r, status)
       \/ AwaitRejects(r)
       \/ \E data \in ErrorBodies : ErrorBodyRead(r, data)
       \/ \E eager \in BOOLEAN : \E data \in RaceBodies(r) : BodyRead(r, data, eager)

\* every request settles: no invocation waits for ever at an await
SpecLive ==
  Init /\ [][LiveNext]_vars /\ \A id \in 1..MaxFetches : WF_vars(Continues(id))

KwhValues == {Rat(k, 4) : k \in 0..MaxKwh}

AggInput(fn, pts) ==
  Closure(fn, Body(fn, pts, ""), DefaultDate, formattedDate(fn, DefaultDate), "H0")

LoadedOption == Option("H0", <<"H0", "Haushalt">>)

\* the twelve monthly values of the sample year as a response to pym, the
\* points without percentage field
SampleYear ==
  AggInput("pym", SeriesWith(Len(monthlyDist), [i \in 1..Len(monthlyDist) |-> Num(monthlyDist[i])],
                             "none", 0))

AggInit ==
  /\ SizingIdle
  /\ ViewerInit
  /\ \E fn \in FnNames, n \in 0..MaxLen :
       \E kw \in [1..n -> KwhValues], name \in PercentNamesOf(fn) \cup {"none"},
          zeroAt \in 0..n :
         \/ aggIn = AggInput(fn, SeriesWith(n, kw, name, zeroAt))
         \/ aggIn = SampleYear
  /\ aggChart = NoChart
  /\ aggOut = NoChart

\* labels and values are mapped from the response and given to the chart
AggNewChart ==
  /\ aggChart = NoChart
  /\ aggChart' = chartConfig(aggIn, LoadedOption)
  /\ UNCHANGED <<aggIn, aggOut, sizingVars, viewerVars>>

\* the chart asks for its legend
AggLegend ==
  /\ aggChart # NoChart
  /\ aggOut' = [kind |-> "legend", legend |-> generateLabels(aggChart.closure)]
  /\ UNCHANGED <<aggIn, aggChart, sizingVars, viewerVars>>

\* the pointer is over the bar at position index
AggTooltip(index) ==
  /\ aggChart # NoChart
  /\ index \in 1..Len(aggChart.values)
  /\ aggOut' = [kind |-> "tooltip", index |-> index,
                 label |-> tooltipLabel(aggChart.closure, index)]
  /\ UNCHANGED <<aggIn, aggChart, sizingVars, viewerVars>>

AggNext ==
  \/ AggNewChart
  \/ AggLegend
  \/ \E index \in 1..Len(MonthNames) : AggTooltip(index)

SpecAgg == AggInit /\ [][AggNext]_vars

\* ------------------------------------------------- the sizing form runs
SizingInit ==
  /\ variant \in Variants
  /\ config = IF variant = "app" THEN Config ELSE LocalParams
  /\ kWField = <<>>
  /\ sizingResults = NoResults
  /\ myChart = NoChart
  /\ chartReuse \in {"redraws", "throws"}
  /\ ViewerInit
  /\ AggIdle

\* the user types one more character into the kW field
TypeKw(c) ==
  /\ Len(kWField) < MaxInputLen
  /\ kWField' = Append(kWField, c)
  /\ UNCHANGED <<variant, config, sizingResults, myChart, chartReuse, viewerVars, aggVars>>

\* the user empties the kW field
ClearKw ==
  /\ kWField # <<>>
  /\ kWField' = <<>>
  /\ UNCHANGED <<variant, config, sizingResults, myChart, chartReuse, viewerVars, aggVars>>

\* a submit handler that replaces three of the four values and keeps the
\* cost displayed before, which the code does not do
SubmitKeepsCost ==
  /\ sizingResults' =
       IF sizingResults = NoResults
       THEN resultHTML(config, ParseFloat(kWField))
       ELSE [resultHTML(config, ParseFloat(kWField)) EXCEPT !.cost = sizingResults.cost]
  /\ myChart' = IF myChart # NoChart /\ chartReuse = "throws" THEN myChart
                ELSE sizingDatasets(variant, ParseFloat(kWField))
  /\ UNCHANGED <<variant, config, kWField, chartReuse, viewerVars, aggVars>>

\* a submit handler that keeps the results of the first submit, which the
\* code does not do
SubmitKeepsResults ==
  /\ sizingResults' = IF sizingResults = NoResults
                       THEN resultHTML(config, ParseFloat(kWField))
                       ELSE sizingResults
  /\ myChart' = IF myChart # NoChart /\ chartReuse = "throws" THEN myChart
                ELSE sizingDatasets(variant, ParseFloat(kWField))
  /\ UNCHANGED <<variant, config, kWField, chartReuse, viewerVars, aggVars>>

\* a submit handler that stores the submitted power as a coefficient, which
\* the code does not do
SubmitWritesConfig ==
  /\ sizingResults' = resultHTML(config, ParseFloat(kWField))
  /\ myChart' = IF myChart # NoChart /\ chartReuse = "throws" THEN myChart
                ELSE sizingDatasets(variant, ParseFloat(kWField))
  /\ config' = [config EXCEPT !.kW_per_panel = ParseFloat(kWField)]
  /\ UNCHANGED <<variant, kWField, chartReuse, viewerVars, aggVars>>

\* the form's submit handler. The results are written before the chart is
\* created; whether new Chart() on a canvas that already holds a chart draws
\* the new one or throws and leaves the old one depends on the version of the
\* chart library the page loads (chartReuse).
Submit ==
  /\ sizingResults' = resultHTML(config, ParseFloat(kWField))
  /\ myChart' = IF myChart # NoChart /\ chartReuse = "throws" THEN myChart
                ELSE sizingDatasets(variant, ParseFloat(kWField))
  /\ UNCHANGED <<variant, config, kWField, chartReuse, viewerVars, aggVars>>

SizingNext ==
  \/ \E c \in KwChars : TypeKw(c)
  \/ ClearKw
  \/ Submit

SpecSizing == SizingInit /\ [][SizingNext]_vars

\* ===================================================== sizing form: claims
\* the peak power a submit reads from the form
SubmittedKw == ParseFloat(kWField)

\* a step of the submit handler that wrote new results
SubmitWrote == kWField' = kWField /\ sizingResults' # sizingResults

\* n is the least integer >= a * b
IsCeilOfProduct(n, a, b) ==
  /\ ~n.nan /\ n.den = 1
  /\ n.num * (a.den * b.den) >= a.num * b.num
  /\ (n.num - 1) * (a.den * b.den) < a.num * b.num

\* x is exactly a * b
IsProduct(x, a, b) == ~x.nan /\ x.num * (a.den * b.den) = a.num * b.num * x.den

\* C1: for every peak power kWp >= 0 a submit shows panelCount =
\* ceil(panelsPerUnit * kWp) and yearlyYield = ceil(yieldPerUnit * kWp), both
\* integers >= 0; with panels = 2.5 and yield = 1000 per kWp, kWp = 5 gives 13
\* panels and 5000 kWh.
C1_CeilOfPanelsAndYield ==
  [][ (SubmitWrote /\ ~SubmittedKw.nan /\ SubmittedKw.num >= 0) =>
        /\ IsCeilOfProduct(sizingResults'.no_of_panels,
                           config.no_of_panels_per_kW, SubmittedKw)
        /\ IsCeilOfProduct(sizingResults'.kWh_per_year,
                           config.kWh_per_year_per_kW, SubmittedKw)
        /\ sizingResults'.no_of_panels.num >= 0
        /\ sizingResults'.kWh_per_year.num >= 0
        /\ ( /\ SubmittedKw = Num(5)
             /\ config.no_of_panels_per_kW = Rat(5, 2)
             /\ config.kWh_per_year_per_kW = Num(1000) )
           => /\ sizingResults'.no_of_panels = Num(13)
              /\ sizingResults'.kWh_per_year = Num(5000) ]_vars

\* the example of C1 on the page: 5 kWp submitted, 13 panels and 5000 kWh shown
C1_Witness ==
  /\ variant = "part_000"
  /\ SubmittedKw = Num(5)
  /\ sizingResults.kind = "results"
  /\ sizingResults.no_of_panels = Num(13)
  /\ sizingResults.kWh_per_year = Num(5000)

\* C2: for every peak power kWp >= 0 a submit shows requiredArea =
\* areaPerUnit * kWp and installationCost = costPerUnit * kWp exactly, without
\* rounding: 5 * kWp and 2500 * kWp.
C2_AreaAndCostExact ==
  [][ (SubmitWrote /\ ~SubmittedKw.nan /\ SubmittedKw.num >= 0) =>
        /\ IsProduct(sizingResults'.m2, config.m2_per_kW, SubmittedKw)
        /\ IsProduct(sizingResults'.cost, config.cost_per_kW, SubmittedKw)
        /\ IsProduct(sizingResults'.m2, Num(5), SubmittedKw)
        /\ IsProduct(sizingResults'.cost, Num(2500), SubmittedKw) ]_vars

\* a submit of a fractional peak power shows an area that is no integer
C2_Witness ==
  /\ sizingResults.kind = "results"
  /\ ~SubmittedKw.nan /\ SubmittedKw.num > 0 /\ SubmittedKw.den # 1
  /\ IsProduct(sizingResults.m2, Num(5), SubmittedKw)
  /\ sizingResults.m2.den # 1

\* C3: a submit whose peak power is negative or not a number is rejected: the
\* results area is not overwritten with values computed from that input.
C3_InvalidPowerRejected ==
  [][ (kWField' = kWField /\ (SubmittedKw.nan \/ SubmittedKw.num < 0))
        => sizingResults' = sizingResults ]_vars

\* ================================================ chart callbacks: claims
\* the series the chart of aggIn was built from
AggSeries == SeriesOf(aggIn.fn, aggIn.data).v

LegendCalled == aggOut # NoChart /\ aggOut.kind = "legend"
LegendShown == LegendCalled /\ ~aggOut.legend.threw
TooltipShown == aggOut # NoChart /\ aggOut.kind = "tooltip"

\* the legend entry with the given tag
LegendEntry(tag) ==
  LET items == aggOut.legend.items
  IN  items[CHOOSE i \in 1..Len(items) : items[i].tag = tag]

\* comparisons of two numbers that are not NaN, by cross multiplication
Less(x, y) == x.num * y.den < y.num * x.den
Same(x, y) == x.num * y.den = y.num * x.den

\* the sum of the kwh of a series as a fraction <<numerator, denominator>>,
\* added up from the last point to the first
RECURSIVE SumFraction(_)
SumFraction(vals) ==
  IF vals = <<>> THEN <<0, 1>>
  ELSE LET rest == SumFraction(Tail(vals))
           x    == Head(vals).kwh
       IN  <<x.num * rest[2] + rest[1] * x.den, x.den * rest[2]>>

\* units is n/d written with `digits` decimals: the nearest such decimal, the
\* larger one on a tie
IsRounded(units, digits, n, d) ==
  /\ 2 * units * d <= 2 * Pow10(digits) * n + d
  /\ 2 * units * d >  2 * Pow10(digits) * n - d

\* the label the chart and the legend show for a point, read off the point
ExpectedLabel(fn, p) ==
  CASE fn = "pym" -> TextLabel(<<p.month_name>>)
    [] fn = "pm"  -> TextLabel(SubSeq(p.date, 9, 10))
    [] fn = "pd"  -> HourLabel(p.hour)
    [] fn = "pyd" -> TextLabel(SubSeq(p.date, 6, 10))

\* j is the first position of AggSeries holding its largest (smallest) kwh
IsFirstMax(j) ==
  /\ j \in 1..Len(AggSeries)
  /\ \A i \in 1..Len(AggSeries) : ~Less(AggSeries[j].kwh, AggSeries[i].kwh)
  /\ \A i \in 1..(j - 1) : Less(AggSeries[i].kwh, AggSeries[j].kwh)
IsFirstMin(j) ==
  /\ j \in 1..Len(AggSeries)
  /\ \A i \in 1..Len(AggSeries) : ~Less(AggSeries[i].kwh, AggSeries[j].kwh)
  /\ \A i \in 1..(j - 1) : Less(AggSeries[j].kwh, AggSeries[i].kwh)

\* C4: for every non-empty series the total of the aggregation is the sum of
\* the kwh of all its points; the legend's Total entry shows that sum with one
\* decimal.
C4_TotalIsSum ==
  LegendShown =>
    LET S == SumFraction(AggSeries)
        t == totalKwh(aggIn)
        e == LegendEntry("Total")
    IN  /\ ~t.nan /\ t.num * S[2] = S[1] * t.den
        /\ ~e.amount.nan /\ e.amount.digits = 1
        /\ IsRounded(e.amount.units, 1, S[1], S[2])

\* a legend over three points with kwh > 0 whose sum has more than one decimal
C4_Witness ==
  /\ LegendShown
  /\ Len(AggSeries) = 3
  /\ \A i \in 1..3 : AggSeries[i].kwh.num > 0
  /\ (10 * SumFraction(AggSeries)[1]) % SumFraction(AggSeries)[2] # 0

\* C5: for every non-empty series the reported max (min) is a point whose kwh
\* is >= (<=) that of every other point, and among several such points the
\* first in input order.
C5_FirstLargestAndSmallest ==
  LegendShown =>
    \E jmax, jmin \in 1..Len(AggSeries) :
      /\ IsFirstMax(jmax) /\ IsFirstMin(jmin)
      /\ maxValue(aggIn) = jmax /\ minValue(aggIn) = jmin
      /\ LegendEntry("Max").label = ExpectedLabel(aggIn.fn, AggSeries[jmax])
      /\ LegendEntry("Min").label = ExpectedLabel(aggIn.fn, AggSeries[jmin])
      /\ IsRounded(LegendEntry("Max").amount.units, 1,
                   AggSeries[jmax].kwh.num, AggSeries[jmax].kwh.den)
      /\ IsRounded(LegendEntry("Min").amount.units, 1,
                   AggSeries[jmin].kwh.num, AggSeries[jmin].kwh.den)

\* a legend over a series whose largest kwh is held by positions 2 and 3 and
\* not by position 1: the Max entry names position 2
C5_Witness ==
  /\ LegendShown
  /\ Len(AggSeries) = 3
  /\ Less(AggSeries[1].kwh, AggSeries[2].kwh)
  /\ Same(AggSeries[2].kwh, AggSeries[3].kwh)
  /\ LegendEntry("Max").label = ExpectedLabel(aggIn.fn, AggSeries[2])

\* the point a tooltip was asked for, and the largest kwh of its series
TooltipPoint == AggSeries[aggOut.index]
LargestKwh == AggSeries[CHOOSE j \in 1..Len(AggSeries) : IsFirstMax(j)].kwh

\* the point carries none of the percentage fields its tooltip reads
NoPercentField(fn, p) == \A n \in PercentNamesOf(fn) : ~p[n].has
\* the non-zero percentages the point carries in those fields
SuppliedPercents(fn, p) == {p[n].v : n \in {m \in PercentNamesOf(fn) : Truthy(p[m])}}

\* the percentage text pt is 100 * kwh / largest with one decimal
IsPercentOfLargest(pt, kwh, largest) ==
  /\ ~pt.nan
  /\ 20 * Abs(pt.units * kwh.den * largest.num - 100 * kwh.num * largest.den * pt.den)
       <= pt.den * kwh.den * largest.num

\* C6 as stated: for every bucket the percentage reported is
\* 100 * bucket.kwh / max.kwh, max being the largest bucket of the result set.
C6_PercentOfMax ==
  (TooltipShown /\ LargestKwh.num > 0) =>
    IsPercentOfLargest(aggOut.label.percent, TooltipPoint.kwh, LargestKwh)

\* C6 amended: for every bucket that carries no percentage field the tooltip
\* reports 100 * bucket.kwh / max.kwh with one decimal, relative to the largest
\* kwh of the same series and not to the sum (and 0.0 when that largest is 0);
\* a bucket that carries a non-zero percentage field is reported with that
\* field's value instead.
C6_PercentOfMaxUnlessSupplied ==
  TooltipShown =>
    LET pt == aggOut.label.percent
        p  == TooltipPoint
    IN  /\ (NoPercentField(aggIn.fn, p) /\ LargestKwh.num > 0) =>
             /\ pt.digits = 1 /\ pt.den = 10 /\ ~pt.nan
             /\ IsRounded(pt.units, 1, 100 * p.kwh.num * LargestKwh.den,
                          p.kwh.den * LargestKwh.num)
        /\ (NoPercentField(aggIn.fn, p) /\ LargestKwh.num = 0) =>
             pt = FixedText(ToFixed(Num(0), 1))
        /\ SuppliedPercents(aggIn.fn, p) # {} =>
             \E v \in SuppliedPercents(aggIn.fn, p) : pt = FieldText(v)

\* a tooltip for a bucket without percentage field whose kwh is a third of
\* the largest kwh, in a series whose sum is not its largest kwh
C6_Witness ==
  /\ TooltipShown
  /\ NoPercentField(aggIn.fn, TooltipPoint)
  /\ 3 * TooltipPoint.kwh.num * LargestKwh.den = LargestKwh.num * TooltipPoint.kwh.den
  /\ TooltipPoint.kwh.num > 0
  /\ aggOut.label.percent.units = 333

\* C7: when the largest kwh of a result set is 0, every percentage derived
\* from it (the per-bucket percentage and the percentage of the minimum) is 0
\* and none is NaN.
C7_ZeroMaxGivesZeroPercent ==
  /\ (LegendShown /\ LargestKwh.num = 0) => LegendEntry("Min").pct = Num(0)
  /\ (TooltipShown /\ LargestKwh.num = 0 /\ NoPercentField(aggIn.fn, TooltipPoint)) =>
       (~aggOut.label.percent.nan /\ aggOut.label.percent.units = 0)

\* C8: aggregating an empty series fails with EmptyInputError and produces no
\* summary.
C8_EmptyInputError ==
  (LegendCalled /\ AggSeries = <<>>) =>
    /\ aggOut.legend.threw
    /\ aggOut.legend.error = "EmptyInputError"
    /\ aggOut.legend.items = <<>>

\* a request settles in this step: fetchData of one invocation runs to its end
RequestSettles == Cardinality(requests') < Cardinality(requests)

\* the page shows the outcome of a fetch that has settled
OutcomeShown == resultsArea[1].t \in {"success", "error"}

\* C9: overlapping fetches share no state: the outcome of one request (stored
\* data, results text, chart) is never changed by the other. Every click
\* replaces the results text by "Fetching data...", so while a request is in
\* flight a settled outcome on the page is that of a request which overlapped
\* it; the step in which the request in flight settles leaves it as it is.
C9_NoInterference ==
  [][ (RequestSettles /\ OutcomeShown) =>
        UNCHANGED <<currentData, resultsArea, chartArea>> ]_vars

\* C10: the chart series has exactly one entry per input point, in input
\* order: label i and value i are derived from point i.
C10_SeriesKeepsInputOrder ==
  aggChart # NoChart =>
    /\ Len(aggChart.labels) = Len(AggSeries)
    /\ Len(aggChart.values) = Len(AggSeries)
    /\ \A i \in 1..Len(AggSeries) :
         /\ aggChart.values[i] = AggSeries[i].kwh
         /\ aggChart.labels[i] = ExpectedLabel(aggIn.fn, AggSeries[i])

\* a chart over three points whose kwh go down and then up
C10_Witness ==
  /\ aggChart # NoChart
  /\ Len(aggChart.values) = 3
  /\ Less(aggChart.values[2], aggChart.values[1])
  /\ Less(aggChart.values[2], aggChart.values[3])
  /\ Less(aggChart.values[1], aggChart.values[3])

\* C11: for every non-empty series the average is the total divided by the
\* number of points, the total being the sum of the kwh of that same series;
\* the legend of the year-days chart shows it with one decimal.
C11_AverageIsTotalByCount ==
  LegendShown =>
    LET S == SumFraction(AggSeries)
        n == Len(AggSeries)
        a == avgKwh(aggIn)
    IN  /\ ~a.nan /\ a.num * S[2] * n = S[1] * a.den
        /\ aggIn.fn = "pyd" =>
             /\ LegendEntry("Avg").amount.digits = 1
             /\ IsRounded(LegendEntry("Avg").amount.units, 1, S[1], S[2] * n)

\* the legend of a year-days chart over three points whose total is not a
\* multiple of three quarters: the average differs from the total
C11_Witness ==
  /\ LegendShown
  /\ aggIn.fn = "pyd"
  /\ Len(AggSeries) = 3
  /\ SumFraction(AggSeries)[1] > 0
  /\ LegendEntry("Avg").amount # LegendEntry("Total").amount
  /\ (10 * SumFraction(AggSeries)[1]) % (3 * SumFraction(AggSeries)[2]) # 0

\* C12: for the twelve monthly values 205, 316, 803, 1385, 1460, 1393, 1460,
\* 1240, 926, 410, 265, 137 the total is 10000, the max is 1460 and is the
\* fifth month (the first of its two occurrences), the percentage of every
\* bucket is 100 * kwh / 1460 (shown with one decimal), and the fifth and
\* the seventh month are both at 100.
C12_SampleYear ==
  aggIn = SampleYear =>
    /\ totalKwh(aggIn) = Num(10000)
    /\ maxValue(aggIn) = 5
    /\ AggSeries[maxValue(aggIn)].kwh = Num(1460)
    /\ LegendShown =>
         /\ LegendEntry("Total").amount = ToFixed(Num(10000), 1)
         /\ LegendEntry("Max").label = TextLabel(<<"May">>)
         /\ LegendEntry("Max").amount = ToFixed(Num(1460), 1)
    /\ TooltipShown =>
         /\ ~aggOut.label.percent.nan /\ aggOut.label.percent.digits = 1
         /\ IsRounded(aggOut.label.percent.units, 1,
                      100 * TooltipPoint.kwh.num, 1460 * TooltipPoint.kwh.den)
         /\ aggOut.index \in {5, 7} => aggOut.label.percent = FixedText(ToFixed(Num(100), 1))

\* the tooltip of the seventh month of the sample year shows 100.0
C12_Witness ==
  /\ aggIn = SampleYear
  /\ TooltipShown
  /\ aggOut.index = 7
  /\ aggOut.label.percent.units = 1000

\* the percentage of the only point of a series: 100 when its kwh is > 0, 0
\* when its kwh is 0
SinglePointPercent == IF AggSeries[1].kwh.num > 0 THEN Num(100) ELSE Num(0)

\* C13: aggregating exactly one point gives one bucket that is both max and
\* min, total = average = the value of that point, and the percentage 100
\* when the value is > 0 and 0 when it is 0 (in the legend's Max and Min
\* entries and, for a point without percentage field, in the tooltip).
C13_SinglePoint ==
  Len(AggSeries) = 1 =>
    /\ LegendShown =>
         /\ maxValue(aggIn) = 1 /\ minValue(aggIn) = 1
         /\ totalKwh(aggIn) = AggSeries[1].kwh
         /\ avgKwh(aggIn) = AggSeries[1].kwh
         /\ LegendEntry("Max").pct = SinglePointPercent
         /\ LegendEntry("Min").pct = SinglePointPercent
    /\ (TooltipShown /\ NoPercentField(aggIn.fn, TooltipPoint)) =>
         aggOut.label.percent = FixedText(ToFixed(SinglePointPercent, 1))

\* the number num/den (den > 0) lies in the range [0, 100]
InPercentRange(num, den) == 0 <= num /\ num <= 100 * den

\* C14: for every result set (the kwh of the model's points are >= 0) every
\* reported percentage lies in the range [0, 100]: the percentages of the
\* legend's Max and Min entries and the percentage of every tooltip.
C14_PercentagesInRange ==
  /\ LegendShown =>
       \A tag \in {"Max", "Min"} :
         /\ ~LegendEntry(tag).pct.nan
         /\ InPercentRange(LegendEntry(tag).pct.num, LegendEntry(tag).pct.den)
  /\ TooltipShown =>
       /\ ~aggOut.label.percent.nan
       /\ InPercentRange(aggOut.label.percent.units, aggOut.label.percent.den)

\* ================================================= sizing form: more claims
\* the four displayed values are those fixed by the coefficients c and the
\* peak power kWp alone: the two products and the two rounded-up products,
\* all four NaN for a kWp that is NaN
ResultsOf(res, c, kWp) ==
  /\ res.kind = "results"
  /\ IF kWp.nan
     THEN res.m2.nan /\ res.cost.nan /\ res.no_of_panels.nan /\ res.kWh_per_year.nan
     ELSE /\ IsProduct(res.m2, c.m2_per_kW, kWp)
          /\ IsProduct(res.cost, c.cost_per_kW, kWp)
          /\ IsCeilOfProduct(res.no_of_panels, c.no_of_panels_per_kW, kWp)
          /\ IsCeilOfProduct(res.kWh_per_year, c.kWh_per_year_per_kW, kWp)

\* C15: the sizing calculation is deterministic and stateless: every submit
\* displays the area, cost, panel count and yearly yield that the peak-power
\* input and the coefficients fix, whatever was displayed or drawn before;
\* so two submits with the same input display identical values, whatever
\* other submits happened before or between them.
C15_SubmitIsStateless ==
  [][ kWField' = kWField =>
        ResultsOf(sizingResults', IF variant = "app" THEN Config ELSE LocalParams,
                  SubmittedKw) ]_vars

\* 5 kWp was submitted and its values are displayed, while the chart still
\* shows an earlier submit of another peak power
C15_Witness ==
  /\ variant = "app"
  /\ kWField = <<"5">>
  /\ ResultsOf(sizingResults, Config, Num(5))
  /\ sizingResults.m2 = Num(25)
  /\ myChart # NoChart
  /\ myChart.production # sizingDatasets("app", Num(5)).production

\* C16: the sizing coefficients are fixed at configuration time: no submit
\* and no other operation changes a field of Config, so in every reachable
\* state the coefficients are the configured ones (0.4 kW per panel, 5 m2,
\* 2500 and 2.5 panels per kW, and the yearly yield per kW of the variant).
C16_ConfigNeverChanges ==
  /\ config = (IF variant = "app" THEN Config ELSE LocalParams)
  /\ config.kW_per_panel = Rat(4, 10)
  /\ config.m2_per_kW = Num(5)
  /\ config.cost_per_kW = Num(2500)
  /\ config.no_of_panels_per_kW = Rat(5, 2)
  /\ config.kWh_per_year_per_kW = (IF variant = "app" THEN Num(1025) ELSE Num(1000))

\* the state after a submit of 5.5 kWp, coefficients as configured
C16_Witness ==
  /\ variant = "app"
  /\ kWField = <<"5", ".", "5">>
  /\ sizingResults = resultHTML(Config, Rat(11, 2))
  /\ myChart # NoChart
  /\ config = Config

\* =================================================== the viewer: claims
\* the step is a click on the fetch button that passed the validation
FetchClicked == nextId' = nextId + 1

\* the step is the work of a copy button or a change of the function
CopyOrChangeStep ==
  \/ clipboard' # clipboard
  \/ copyButton' # copyButton
  \/ copyTableButton' # copyTableButton
  \/ uncaught' # uncaught
  \/ Len(resultsArea') > Len(resultsArea)
  \/ functionSelect' # functionSelect

\* C17: each user action causes at most a single network request: a click on
\* the fetch button with a non-empty trimmed date sends exactly one data
\* request, and no other user action (copy JSON, copy as table, changing the
\* function) sends any; a request is only ever added by such a click.
C17_OneRequestPerClick ==
  [][ /\ FetchClicked =>
           /\ Trim(dateInput) # <<>>
           /\ requests \subseteq requests'
           /\ Cardinality(requests' \ requests) = 1
           /\ \A r \in requests' \ requests : r.pc = "fetch"
      /\ CopyOrChangeStep => requests' = requests
      /\ ~FetchClicked => Cardinality(requests') <= Cardinality(requests) ]_vars

\* two requests were sent by two clicks, and since then the function was
\* changed and both copy buttons were used
C17_Witness ==
  /\ nextId = 3
  /\ requests = {}
  /\ functionSelect # "pd"
  /\ copyButton.text = "Copied!"
  /\ copyTableButton.text = "Table Copied!"
  /\ clipboard.kind = "table"

\* the step in which a fetch fails: a request settles and the success path
\* (which sets a timeout for the fetch button) was not taken
FetchFails == RequestSettles /\ buttonTimers' = buttonTimers

\* the messages the failure of request r can end with: a network error; for
\* a body that was received, a parse error, or for a status that is not OK
\* the detail of the response or else the text with the HTTP status
FailureMessages(r) ==
  IF r.pc = "fetch" THEN {"Failed to fetch"}
  ELSE {"Unexpected token < in JSON at position 0"} \cup
       (IF r.status = 500 THEN {"Invalid date format", "HTTP error! status: 500"}
        ELSE {})

\* C18: a failed data fetch (network error, unparsable body, status not OK)
\* is handled by the one catch block and is not retried: right after it the
\* results area shows "Error: <message>" (the detail of the response when it
\* has one, else the text with the HTTP status), the chart area holds the
\* error message and no canvas, the stored data is null, and no request was
\* sent in its place.
C18_FailedFetchIsReported ==
  [][ FetchFails =>
        LET r == CHOOSE q \in requests : q \notin requests'
        IN  /\ requests' = requests \ {r}
            /\ nextId' = nextId
            /\ Len(resultsArea') = 1
            /\ resultsArea'[1].t = "error"
            /\ resultsArea'[1].msg \in FailureMessages(r)
            /\ chartArea' = << [el |-> "error", msg |-> resultsArea'[1].msg] >>
            /\ currentData' = Null ]_vars

\* a fetch succeeded and stored its data; a later one failed with a detail,
\* which is displayed, and nothing is stored
C18_Witness ==
  /\ listeners.copy
  /\ requests = {}
  /\ resultsArea = << Line("error", "Invalid date format") >>
  /\ chartArea = << [el |-> "error", msg |-> "Invalid date format"] >>
  /\ currentData = Null

\* the step in which a fetch succeeds: a request settles whose response was
\* OK and parsed, so that the timeout for the fetch button was set
FetchSucceeds == RequestSettles /\ buttonTimers' = buttonTimers + 1

\* the request that settles in this step
Settled == CHOOSE q \in requests : q \notin requests'

\* the response has the field the function reads: monthly_values for pym,
\* daily_values for pm and pyd, hourly_values for pd
MatchingField(fn, data) ==
  \/ fn = "pym" /\ data.monthly_values.has
  \/ fn \in {"pm", "pyd"} /\ data.daily_values.has
  \/ fn = "pd" /\ data.hourly_values.has

\* success is reported, the response is stored, and the chart area holds one
\* canvas for the function selected at click time if the response has the
\* matching field, and nothing if not
StoredAndCharted ==
  /\ resultsArea' = << Line("success", "") >>
  /\ currentData' # Null
  /\ IF MatchingField(Settled.selectedFunction, currentData'.v)
     THEN /\ Len(chartArea') = 1
          /\ chartArea'[1].el = "canvas"
          /\ chartArea'[1].chart.closure.fn = Settled.selectedFunction
          /\ chartArea'[1].chart.closure.data = currentData'.v
     ELSE chartArea' = << >>

\* creating the chart threw in its legend callback: the catch block ran
LegendThrew ==
  /\ resultsArea' = << Line("error", "Cannot read properties of undefined") >>
  /\ chartArea' = << [el |-> "error", msg |-> "Cannot read properties of undefined"] >>
  /\ currentData' = Null

Sent == CHOOSE q \in requests' : q \notin requests

StartsWithFourDigits(text) ==
  /\ Len(text) >= 4
  /\ \A i \in 1..4 : text[i] \in {"0", "1", "2", "3", "4", "5", "6", "7", "8", "9"}

\* the year part for pyd and pym when the text starts with four digits, and
\* the text itself otherwise
YearOrWhole(fn, text) ==
  IF fn \in {"pyd", "pym"} /\ StartsWithFourDigits(text)
  THEN SubSeq(text, 1, 4)
  ELSE text

\* the text without the spaces before and after it
RECURSIVE Stripped(_)
Stripped(text) ==
  IF text = << >> THEN text
  ELSE IF Head(text) = " " THEN Stripped(Tail(text))
  ELSE IF text[Len(text)] = " " THEN Stripped(SubSeq(text, 1, Len(text) - 1))
  ELSE text

\* C20 as stated: for pyd and pym the date of the request is the leading four
\* digits of the entered date; for pd and pm, and for an entered date that
\* does not start with four digits, it is the entered date unchanged.
C20_YearOnlyElseUnchanged ==
  [][ FetchClicked =>
        Sent.formattedDate = YearOrWhole(functionSelect, dateInput) ]_vars

\* C20 amended: the same of the entered date without the spaces around it;
\* the query carries that date URL-encoded.
C20_YearOnlyElseTrimmed ==
  [][ FetchClicked =>
        /\ Sent.formattedDate = YearOrWhole(functionSelect, Stripped(dateInput))
        /\ Sent.apiUrl.date = encodeURIComponent(Sent.formattedDate)
        /\ Sent.apiUrl.path = functionSelect ]_vars

\* a request of a year-based function carries the year of a longer entered
\* date that was typed with spaces around it
C20_Witness ==
  \E q \in requests :
    /\ q.selectedFunction \in {"pyd", "pym"}
    /\ Len(q.date) > 4
    /\ q.apiUrl.date = SubSeq(q.date, 1, 4)
    /\ q.date # dateInput

\* the step in which 'Please enter a date.' appears in the results area
PleaseShown ==
  /\ resultsArea' = << Line("please", "") >>
  /\ resultsArea' # resultsArea

\* C21: a click on the fetch button while the trimmed date is empty sets the
\* results area to 'Please enter a date.' and changes nothing else: no request
\* is sent, and the chart area, the stored data and the fetch button are left
\* unchanged.
C21_EmptyDateOnlyAsksForDate ==
  [][ /\ PleaseShown =>
           /\ \A i \in 1..Len(dateInput) : dateInput[i] = " "
           /\ requests' = requests
           /\ nextId' = nextId
           /\ chartArea' = chartArea
           /\ currentData' = currentData
           /\ fetchButton' = fetchButton
           /\ buttonTimers' = buttonTimers
           /\ UNCHANGED <<functionSelect, functionTitle, fadeIn, dateInput,
                          kategorieSelect, categories, listeners, copyVars>>
      /\ (\A i \in 1..Len(dateInput) : dateInput[i] = " ") => ~FetchClicked
    ]_vars

\* the message is shown while the chart and the data of an earlier fetch are
\* still there
C21_Witness ==
  /\ resultsArea = << Line("please", "") >>
  /\ currentData # Null
  /\ Len(chartArea) = 1
  /\ chartArea[1].el = "canvas"
  /\ requests = {}

\* the percentage fields the point carries among those its tooltip reads
CarriedPercents(fn, p) == {n \in PercentNamesOf(fn) : p[n].has}

\* C22: in the tooltip, the percentage shown for a bucket is the
\* backend-supplied percentage whenever the bucket carries one (including a
\* supplied value of 0); only when the bucket carries no percentage field is
\* it computed as 100 * kwh / max kwh of the series, and as 0.0 when that max
\* is not positive.
C22_SuppliedPercentFirst ==
  TooltipShown =>
    LET pt == aggOut.label.percent
        p  == TooltipPoint
    IN  /\ CarriedPercents(aggIn.fn, p) # {} =>
             \E n \in CarriedPercents(aggIn.fn, p) : pt = FieldText(p[n].v)
        /\ (CarriedPercents(aggIn.fn, p) = {} /\ LargestKwh.num > 0) =>
             /\ pt.digits = 1 /\ pt.den = 10 /\ ~pt.nan
             /\ IsRounded(pt.units, 1, 100 * p.kwh.num * LargestKwh.den,
                          p.kwh.den * LargestKwh.num)
        /\ (CarriedPercents(aggIn.fn, p) = {} /\ LargestKwh.num <= 0) =>
             pt = FixedText(ToFixed(Num(0), 1))

\* the stored data is a body the server sent for the request that settles
StoresBodyOfSettled == \E b \in RaceBodies(Settled) : currentData' = Data(b)

JsonWritten ==
  /\ copyButton' # copyButton
  /\ copyButton'.text = "Copied!"

\* C24: after any sequence of fetches, one click on the Copy JSON button
\* performs at most one clipboard write, and what it writes is the currently
\* stored response; it performs no write when no fetch has yet succeeded or
\* when the most recently settled fetch failed.
C24_CopyWritesStoredResponseOnce ==
  [][ /\ JsonWritten =>
           /\ copyButton'.timers = copyButton.timers + 1
           /\ listeners.copy
           /\ currentData # Null
           /\ clipboard' = [kind |-> "json", value |-> currentData.v]
           /\ currentData' = currentData
           /\ resultsArea[1].t # "error"
      /\ (currentData = Null \/ ~listeners.copy) =>
           (clipboard' = clipboard /\ copyButton'.timers <= copyButton.timers)
    ]_vars

\* after two fetches the clipboard holds the text of the stored response
C24_Witness ==
  /\ nextId = 3
  /\ currentData # Null
  /\ clipboard = [kind |-> "json", value |-> currentData.v]
  /\ copyButton.text = "Copied!"

\* the chart canvases in the chart area
Canvases == {i \in 1..Len(chartArea) : chartArea[i].el = "canvas"}

\* C25: in every reachable state, for any number and interleaving of fetches,
\* the chart area contains at most one chart canvas.
C25_AtMostOneCanvas == Cardinality(Canvases) <= 1

\* two overlapping fetches have both come to their end on the success path,
\* and the chart area holds one canvas and nothing else
C25_Witness ==
  /\ nextId = 3
  /\ requests = {}
  /\ buttonTimers = 2
  /\ chartArea # << >>
  /\ Canvases = {1}
  /\ Len(chartArea) = 1

\* C26: assuming every request eventually settles, every fetch click with a
\* non-empty date first puts the results area into 'Fetching data...' and is
\* eventually followed by a state in which no request is in flight and the
\* results area shows either the success message or an 'Error: ...' message;
\* the loading state never persists.
C26_FetchingLeadsToOutcome ==
  /\ [][ FetchClicked => resultsArea' = << Line("fetching", "") >> ]_vars
  /\ (requests # {}) ~> (requests = {} /\ resultsArea[1].t \in {"success", "error"})
  /\ (resultsArea[1].t = "fetching") ~> (resultsArea[1].t # "fetching")

\* two fetches were clicked, both have settled, and the results area shows
\* the error of the one that settled last
C26_Witness ==
  /\ nextId = 3
  /\ requests = {}
  /\ resultsArea[1].t = "error"
  /\ chartArea[1].el = "error"

\* the step in which a click on Copy as Table has written to the clipboard:
\* the button says so
TableWritten ==
  /\ copyTableButton' # copyTableButton
  /\ copyTableButton'.text = "Table Copied!"

\* the step in which a line about the table is added to the results area
TableErrorShown ==
  /\ resultsArea' # resultsArea
  /\ resultsArea'[Len(resultsArea')].t = "tableerror"

\* the title and the header of the table of function fn
LayoutOf(fn) ==
  CASE fn = "pd"  -> << "Daily Profile (hourly data)", <<"Hour", "KWh">> >>
    [] fn = "pm"  -> << "Monthly Profile (daily data)", <<"Date", "KWh">> >>
    [] fn = "pym" -> << "Yearly Profile (monthly data)", <<"Month", "KWh">> >>
    [] fn = "pyd" -> << "Yearly Profile (daily data)", <<"Date", "KWh">> >>

\* the step in which a click on Copy as Table ends in an exception that
\* nothing catches
TableClickThrew == uncaught' # uncaught

\* a click on Copy as Table that got as far as its handler's first test
TableClicked == TableWritten \/ TableErrorShown \/ TableClickThrew

\* the line is appended and nothing is written
OnlyErrorAppended ==
  /\ resultsArea' = Append(resultsArea,
        Line("tableerror", "No compatible data found to format as table"))
  /\ clipboard' = clipboard
  /\ copyTableButton' = copyTableButton

\* the table of the selected function is written
TableOfSelectedWritten ==
  /\ clipboard'.kind = "table"
  /\ << clipboard'.functionName, clipboard'.header >> = LayoutOf(functionSelect)
  /\ Len(clipboard'.rows) = Len(SeriesOf(functionSelect, currentData.v).v)
  /\ resultsArea' = resultsArea

Params == IF variant = "app" THEN Config ELSE LocalParams

\* res is the four values of the peak power kWp, and nothing besides them
ShowsFourValuesOf(res, kWp) ==
  /\ DOMAIN res = {"kind", "m2", "cost", "no_of_panels", "kWh_per_year"}
  /\ ResultsOf(res, Params, kWp)

\* the peak power that the displayed area belongs to
PowerOfArea(res) == JsDiv(res.m2, Params.m2_per_kW)

\* C28: after any sequence of sizing-form submits, the results area shows
\* exactly the four values computed from the most recent submit's input; every
\* earlier result is fully replaced and none of it carries over.
C28_ResultsOfLastSubmitOnly ==
  /\ [](sizingResults # NoResults =>
          ShowsFourValuesOf(sizingResults, PowerOfArea(sizingResults)))
  /\ [][ sizingResults' # sizingResults =>
           (kWField' = kWField /\ ShowsFourValuesOf(sizingResults', SubmittedKw)) ]_vars

\* .5 kWp was submitted after 5 kWp: the four values are those of .5, while
\* the chart, which the library did not redraw, is still the one of 5 kWp
C28_Witness ==
  /\ variant = "app"
  /\ chartReuse = "throws"
  /\ kWField = <<".", "5">>
  /\ sizingResults # NoResults
  /\ sizingResults.m2 = Rat(5, 2)
  /\ sizingResults.cost = Num(1250)
  /\ sizingResults.no_of_panels = Num(2)
  /\ sizingResults.kWh_per_year = Num(513)
  /\ myChart # NoChart
  /\ myChart.production = sizingDatasets("app", Num(5)).production

====
